---- MODULE Spec2Model ----
(***************************************************************************)
(* Lesson Extractor (app_file.py): the Streamlit script, its session       *)
(* state, process_file with its cache and temporary file, and              *)
(* get_key_ideas (prompt assembly, remote call, response parsing).         *)
(*                                                                         *)
(* A Python str is a sequence of one-character strings.  A value that may  *)
(* be None is a sequence of length at most one: None is <<>>, the value v  *)
(* is <<v>>.                                                               *)
(***************************************************************************)
EXTENDS Integers, Sequences, FiniteSets, TLC

VARIABLES
    page,                   \* st.sidebar.radio "Select Page"
    uploaded_file,          \* the file_uploader widget: None or Some(file)
    api_key,                \* st.session_state['api_key']
    uploaded_file_content,  \* st.session_state['uploaded_file_content']
    file_type,              \* st.session_state['file_type'] (None: key absent)
    custom_prompt,          \* st.session_state['custom_prompt']
    prompt_area,            \* the text of the "Edit the prompt below:" widget
    cache,                  \* st.cache_data of process_file: the entries stored
    temp_files,             \* temporary files present on disk
    full_text,              \* script local: None or Some(text)
    file_text,              \* get_key_ideas argument (as passed)
    template,               \* get_key_ideas argument prompt (as passed)
    prompt,                 \* get_key_ideas local prompt after line 101
    result,                 \* get_key_ideas local result (line 105)
    key_ideas,              \* value returned by get_key_ideas
    called,                 \* model.generate_content was invoked in this run
    cause,                  \* how get_key_ideas ended in this run
    exc,                    \* exception that escaped the script in this run
    shown,                  \* elements displayed by this run of the script
    seen,                   \* history: the runs in which get_key_ideas returned None
    action,                 \* the user action that triggered this run
    phase                   \* which part of the program the behaviour exercises

vars == <<page, uploaded_file, api_key, uploaded_file_content, file_type,
          custom_prompt, prompt_area, cache, temp_files, full_text, file_text,
          template, prompt, result, key_ideas, called, cause, exc, shown,
          seen, action, phase>>

----------------------------------------------------------------------------
(* Values *)

None == <<>>
Some(v) == <<v>>
IsNone(o) == o = <<>>
Val(o) == o[1]

\* Bounds of the input sets.
MaxTemplateChunks == 3
MaxTextChunks == 2
MaxResponseChunks == 5

\* "{file_text}", the literal of line 101.
Placeholder == <<"{", "f", "i", "l", "e", "_", "t", "e", "x", "t", "}">>

\* "<markdown>", the literal of the regular expression of line 107.
OpenTag == <<"<", "m", "a", "r", "k", "d", "o", "w", "n", ">">>

\* "</markdown>", the closing tag the prompt asks the model for (line 59).
CloseTag == <<"<", "/", "m", "a", "r", "k", "d", "o", "w", "n", ">">>

\* The characters matched by \s and removed by str.strip().
Whitespace == {" ", "\t", "\n", "\r"}

UpperLetters == <<"A", "B", "C", "D", "E", "F", "G", "H", "I", "J", "K", "L", "M",
                  "N", "O", "P", "Q", "R", "S", "T", "U", "V", "W", "X", "Y", "Z">>
LowerLetters == <<"a", "b", "c", "d", "e", "f", "g", "h", "i", "j", "k", "l", "m",
                  "n", "o", "p", "q", "r", "s", "t", "u", "v", "w", "x", "y", "z">>

UpperToLower ==
    [u \in {UpperLetters[k] : k \in 1..26} |->
        LowerLetters[CHOOSE k \in 1..26 : UpperLetters[k] = u]]

\* Case folding of re.IGNORECASE.
Lower(c) == IF c \in DOMAIN UpperToLower THEN UpperToLower[c] ELSE c

RECURSIVE Concat(_)
Concat(ss) == IF ss = <<>> THEN <<>> ELSE Head(ss) \o Concat(Tail(ss))

SeqsUpTo(S, n) == UNION {[1..k -> S] : k \in 0..n}

----------------------------------------------------------------------------
(* str.replace, line 101 *)

\* old occurs in s at index i, compared character by character.
OccursAt(s, old, i) ==
    /\ i >= 1
    /\ i + Len(old) - 1 <= Len(s)
    /\ \A k \in 1..Len(old) : s[i + k - 1] = old[k]

\* str.find: the least index >= pos where old occurs, 0 when there is none.
RECURSIVE Find(_, _, _)
Find(s, old, pos) ==
    IF pos + Len(old) - 1 > Len(s) THEN 0
    ELSE IF OccursAt(s, old, pos) THEN pos
    ELSE Find(s, old, pos + 1)

\* The scan of str.replace: copy up to the next occurrence, emit new, go on
\* after the occurrence in s (what was emitted is never scanned).
RECURSIVE ReplaceFrom(_, _, _, _)
ReplaceFrom(s, old, new, pos) ==
    LET i == Find(s, old, pos) IN
    IF i = 0 THEN SubSeq(s, pos, Len(s))
    ELSE SubSeq(s, pos, i - 1) \o new \o ReplaceFrom(s, old, new, i + Len(old))

\* A replace that stops after the first occurrence (count = 1).
ReplaceFirstOnly(s, old, new) ==
    LET i == Find(s, old, 1) IN
    IF i = 0 THEN s
    ELSE SubSeq(s, 1, i - 1) \o new \o SubSeq(s, i + Len(old), Len(s))

\* A replace that goes on one character early after an occurrence.
ReplaceShortSkip(s, old, new) ==
    LET i == Find(s, old, 1) IN
    IF i = 0 THEN s
    ELSE SubSeq(s, 1, i - 1) \o new
            \o ReplaceFrom(s, old, new, i + Len(old) - 1)

\* prompt.replace("{file_text}", file_text) for str arguments.
Replace(s, old, new) == ReplaceFrom(s, old, new, 1)

----------------------------------------------------------------------------
(* Response parsing, lines 107-113 *)

MatchesAt(s, lit, i) ==
    /\ i + Len(lit) - 1 <= Len(s)
    /\ \A k \in 1..Len(lit) : Lower(s[i + k - 1]) = Lower(lit[k])

\* The literal part of the pattern at index i, under re.IGNORECASE.
TagAt(s, i) == MatchesAt(s, OpenTag, i)

\* re.search: the leftmost index where the pattern matches, 0 for no match.
RECURSIVE Search(_, _)
Search(s, pos) ==
    IF pos + Len(OpenTag) - 1 > Len(s) THEN 0
    ELSE IF TagAt(s, pos) THEN pos
    ELSE Search(s, pos + 1)

RECURSIVE LStrip(_)
LStrip(s) ==
    IF s # <<>> /\ Head(s) \in Whitespace THEN LStrip(Tail(s)) ELSE s

RECURSIVE RStrip(_)
RStrip(s) ==
    IF s # <<>> /\ s[Len(s)] \in Whitespace
    THEN RStrip(SubSeq(s, 1, Len(s) - 1)) ELSE s

\* str.strip()
Strip(s) == RStrip(LStrip(s))

\* Greedy \s*: the first index >= pos that holds no whitespace.
RECURSIVE SkipWs(_, _)
SkipWs(s, pos) ==
    IF pos <= Len(s) /\ s[pos] \in Whitespace THEN SkipWs(s, pos + 1) ELSE pos

\* ^ under re.MULTILINE: the start of the string or just after a newline.
AtLineStart(s, pos) == pos = 1 \/ s[pos - 1] = "\n"

\* ^\s*>\s* tried at pos: the index just after the match, 0 for no match.
QuoteMatchEnd(s, pos) ==
    LET q == SkipWs(s, pos) IN
    IF AtLineStart(s, pos) /\ q <= Len(s) /\ s[q] = ">"
    THEN SkipWs(s, q + 1) ELSE 0

\* re.sub(r'^\s*>\s*', '', s, flags=re.MULTILINE): the scan from pos.
RECURSIVE SubQuoteFrom(_, _)
SubQuoteFrom(s, pos) ==
    IF pos > Len(s) THEN <<>>
    ELSE LET e == QuoteMatchEnd(s, pos) IN
         IF e # 0 THEN SubQuoteFrom(s, e)
         ELSE <<s[pos]>> \o SubQuoteFrom(s, pos + 1)

SubQuote(s) == SubQuoteFrom(s, 1)

\* A parse whose search is case sensitive.
ParseCaseSensitive(r) ==
    LET m == Find(r, OpenTag, 1) IN
    IF m # 0
    THEN Some(SubQuote(Strip(SubSeq(r, m + Len(OpenTag), Len(r)))))
    ELSE None

\* Lines 107-113: the value of key_ideas for the response text r.
ParseResponse(r) ==
    LET m == Search(r, 1) IN
    IF m # 0
    THEN Some(SubQuote(Strip(SubSeq(r, m + Len(OpenTag), Len(r)))))
    ELSE None

----------------------------------------------------------------------------
(* Documents and process_file, lines 121-153 *)

\* The characters of the ASCII bytes the documents of Uploads use.
Ascii == (72 :> "H") @@ (105 :> "i") @@ (10 :> "\n") @@ (62 :> ">")
            @@ (123 :> "{") @@ (125 :> "}")

\* bytes.decode("utf-8"), line 148: None stands for UnicodeDecodeError.  The
\* byte strings of Uploads hold ASCII bytes and 0xFF, which no UTF-8 sequence
\* contains.
Decode(bytes) ==
    IF \A k \in 1..Len(bytes) : bytes[k] \in DOMAIN Ascii
    THEN Some([k \in 1..Len(bytes) |-> Ascii[bytes[k]]])
    ELSE None

\* The verdict of the PDF and EPUB libraries on a byte string (pymupdf.open,
\* epub.read_epub): they raise on an archive they cannot read.
Malformed(bytes) == \E k \in 1..Len(bytes) : bytes[k] \notin DOMAIN Ascii

\* The texts of the pages of a readable PDF, in page order (page.get_text()).
PdfPages(bytes) == <<Val(Decode(bytes)), Val(Decode(bytes))>>

\* The items of a readable EPUB, in package order: html marks an EpubHtml
\* item, text is what BeautifulSoup(...).get_text() yields for it.
EpubItems(bytes) ==
    << [html |-> TRUE, text |-> Val(Decode(bytes))],
       [html |-> FALSE, text |-> <<"c", "s", "s">>],
       [html |-> TRUE, text |-> <<"\n">>] >>

\* The loop of lines 140-143.
RECURSIVE EpubText(_)
EpubText(items) ==
    IF items = <<>> THEN <<>>
    ELSE (IF Head(items).html THEN Head(items).text ELSE <<>>)
            \o EpubText(Tail(items))

\* The body of process_file: text is the value returned, error tells that
\* the except handler ran (st.error, return None), left is the set of
\* temporary files (by content) the call created and did not unlink.
ProcessFile(file_content, ftype) ==
    IF ftype = "application/pdf" THEN
        IF Malformed(file_content)
        THEN [text |-> None, error |-> TRUE, left |-> {}]
        ELSE [text |-> Some(Concat(PdfPages(file_content))), error |-> FALSE,
              left |-> {}]
    ELSE IF ftype = "application/epub+zip" THEN
        \* NamedTemporaryFile(delete=False), write, close (lines 133-135);
        \* read_epub raises before os.unlink of line 145 is reached.
        IF Malformed(file_content)
        THEN [text |-> None, error |-> TRUE, left |-> {file_content}]
        ELSE [text |-> Some(EpubText(EpubItems(file_content))),
              error |-> FALSE, left |-> {}]
    ELSE
        [text |-> Decode(file_content), error |-> Decode(file_content) = None,
         left |-> {}]

\* @st.cache_data: the entry stored for a call, if any.
CacheHit(file_content, ftype) ==
    \E e \in cache : e.content = file_content /\ e.type = ftype

Cached(file_content, ftype) ==
    CHOOSE e \in cache : e.content = file_content /\ e.type = ftype

----------------------------------------------------------------------------
(* get_key_ideas, lines 98-118 *)

NoOutcome == [kind |-> "none", text |-> <<>>]

\* What the call returns or how it ends, given the outcome resp of
\* model.generate_content: "raise" (the call raises), "no_candidates" (a
\* response whose candidates list is empty: IndexError at line 105) or
\* "text" (a response carrying text).
GetKeyIdeas(ft, key, tmpl, resp) ==
    IF IsNone(ft) THEN
        \* str.replace with None as its second argument: TypeError at line
        \* 101, before the try statement.
        [prompt |-> None, result |-> None, key_ideas |-> None,
         called |-> FALSE, cause |-> "TypeError", exc |-> "TypeError",
         error |-> FALSE]
    ELSE
        LET p == Replace(tmpl, Placeholder, Val(ft)) IN
        IF resp.kind = "raise" THEN
            [prompt |-> Some(p), result |-> None, key_ideas |-> None,
             called |-> TRUE, cause |-> "call_raised", exc |-> "none",
             error |-> TRUE]
        ELSE IF resp.kind = "no_candidates" THEN
            [prompt |-> Some(p), result |-> None, key_ideas |-> None,
             called |-> TRUE, cause |-> "no_candidates", exc |-> "none",
             error |-> TRUE]
        ELSE
            LET k == ParseResponse(resp.text) IN
            [prompt |-> Some(p), result |-> Some(resp.text), key_ideas |-> k,
             called |-> TRUE,
             cause |-> IF IsNone(k) THEN "no_marker" ELSE "parsed",
             exc |-> "none", error |-> FALSE]

NotRun ==
    [prompt |-> None, result |-> None, key_ideas |-> None, called |-> FALSE,
     cause |-> "not_run", exc |-> "none", error |-> FALSE]

----------------------------------------------------------------------------
(* The script, lines 155-213: one run per user action *)

\* default_prompt, lines 12-95, cut down to its lines 35-37 (the lines that
\* hold the placeholder).
default_prompt ==
    <<"<", "f", "i", "l", "e", "_", "t", "e", "x", "t", ">", "\n">>
        \o Placeholder
        \o <<"\n", "<", "/", "f", "i", "l", "e", "_", "t", "e", "x", "t", ">", "\n">>

\* A prompt the user may type on the Prompt page: "Text: {file_text}".
TypedPrompt == <<"T", "e", "x", "t", ":", " ">> \o Placeholder

PromptTexts == {default_prompt, TypedPrompt}

ApiKeys == {<<>>, <<"k">>}

HiBytes == <<72, 105>>
BadBytes == <<72, 255>>

\* The files the user may upload: UploadedFile.read() and UploadedFile.type.
Uploads ==
    { [content |-> HiBytes, type |-> "text/plain"],
      [content |-> BadBytes, type |-> "text/plain"],
      [content |-> <<>>, type |-> "text/plain"],
      [content |-> HiBytes, type |-> "application/pdf"],
      [content |-> HiBytes, type |-> "application/epub+zip"],
      [content |-> BadBytes, type |-> "application/epub+zip"] }

UpperTag == <<"<", "M", "A", "R", "K", "D", "O", "W", "N", ">">>

Hello == <<"H", "e", "l", "l", "o">>

\* What model.generate_content may do in a session run.
RemoteOutcomes ==
    { [kind |-> "raise", text |-> <<>>],
      [kind |-> "no_candidates", text |-> <<>>],
      [kind |-> "text", text |-> Hello],
      [kind |-> "text", text |-> OpenTag \o <<"\n">> \o Hello \o <<"\n">> \o CloseTag],
      [kind |-> "text", text |-> UpperTag \o <<"\n", ">", " ">> \o Hello] }

\* Python truth of st.session_state['uploaded_file_content'] (line 182).
Truthy(content) == ~IsNone(content) /\ Len(Val(content)) > 0

\* A Prompt page that stores the text area's value on every run.
SavedPromptAlways(pg, area, save) ==
    IF pg = "Prompt" THEN area ELSE custom_prompt

\* Lines 212-213: the value of st.session_state['custom_prompt'] after a run.
SavedPrompt(pg, area, save) ==
    IF pg = "Prompt" /\ save THEN area ELSE custom_prompt

\* One run of the script.  pg is the page selected in the sidebar, upl the
\* value of the file uploader, key that of the API key input, area that of
\* the prompt text area; save and extract tell which button was pressed;
\* resp is what model.generate_content does if it is reached.
Script(act, pg, upl, key, area, save, extract, resp) ==
    LET home == pg = "Home"
        \* lines 174-177
        content == IF home /\ ~IsNone(upl) THEN Some(Val(upl).content)
                   ELSE uploaded_file_content
        ftype == IF home /\ ~IsNone(upl) THEN Some(Val(upl).type)
                 ELSE file_type
        doc == home /\ Truthy(content)
        hit == doc /\ CacheHit(Val(content), Val(ftype))
    IN
    \* line 186: the cached value, or the value of a call of process_file
    \E pf \in {IF ~doc THEN [text |-> None, error |-> FALSE, left |-> {}]
               ELSE IF hit
               THEN [text |-> Cached(Val(content), Val(ftype)).value,
                     error |-> Cached(Val(content), Val(ftype)).error,
                     left |-> {}]
               ELSE ProcessFile(Val(content), Val(ftype))} :
    \* line 196
    \E g \in {IF doc /\ extract
              THEN GetKeyIdeas(pf.text, key, custom_prompt, resp)
              ELSE NotRun} :
    LET run == doc /\ extract
        \* lines 199-204
        verdict == IF g.exc # "none" THEN <<"warning: Extracting key lessons...",
                                            "exception: " \o g.exc>>
                   ELSE IF IsNone(g.key_ideas)
                        THEN <<"error: Could not extract the lessons.">>
                   ELSE <<"success: Key lessons extracted!", "markdown: key_ideas">>
    IN
    /\ action' = act
    /\ page' = pg
    /\ uploaded_file' = IF home THEN upl ELSE None
    /\ uploaded_file_content' = content
    /\ file_type' = ftype
    /\ api_key' = IF home THEN key ELSE api_key
    /\ custom_prompt' = SavedPrompt(pg, area, save)
    /\ prompt_area' = IF home THEN custom_prompt' ELSE area
    /\ cache' = IF doc /\ ~hit
                THEN cache \cup {[content |-> Val(content), type |-> Val(ftype),
                                  value |-> pf.text, error |-> pf.error]}
                ELSE cache
    /\ temp_files' = temp_files \cup pf.left
    /\ full_text' = pf.text
    /\ file_text' = IF run THEN pf.text ELSE None
    /\ template' = IF run THEN Some(custom_prompt) ELSE None
    /\ prompt' = g.prompt
    /\ result' = g.result
    /\ key_ideas' = g.key_ideas
    /\ called' = g.called
    /\ cause' = g.cause
    /\ exc' = g.exc
    /\ shown' =
        IF ~home THEN <<"warning: press Save to apply changes">>
        ELSE IF ~doc THEN <<"write: Please upload a PDF, TXT, or EPUB file">>
        ELSE (IF pf.error THEN <<"error: An error occurred">> ELSE <<>>)
             \o (IF g.error THEN <<"error: Error in Gemini API call">> ELSE <<>>)
             \o (IF run THEN verdict ELSE <<"write: full_text">>)
    /\ seen' = IF run /\ g.exc = "none" /\ IsNone(g.key_ideas)
               THEN seen \cup {[cause |-> g.cause, returned |-> g.key_ideas,
                                shown |-> shown']}
               ELSE seen
    /\ UNCHANGED phase

\* The user selects the other page; the widgets of the page are new.
SwitchPage(pg) ==
    /\ phase = "session"
    /\ pg # page
    /\ Script("SwitchPage", pg, None, api_key, custom_prompt, FALSE, FALSE,
              NoOutcome)

\* The user puts a file into the uploader.
Upload(f) ==
    /\ phase = "session"
    /\ page = "Home"
    /\ Script("Upload", page, Some(f), api_key, prompt_area, FALSE, FALSE,
              NoOutcome)

\* The user removes the file from the uploader.
RemoveUpload ==
    /\ phase = "session"
    /\ page = "Home"
    /\ ~IsNone(uploaded_file)
    /\ Script("RemoveUpload", page, None, api_key, prompt_area, FALSE, FALSE,
              NoOutcome)

\* The user types an API key.
EnterApiKey(k) ==
    /\ phase = "session"
    /\ page = "Home"
    /\ k # api_key
    /\ Script("EnterApiKey", page, uploaded_file, k, prompt_area, FALSE, FALSE,
              NoOutcome)

\* The user edits the prompt text area.
EditPrompt(t) ==
    /\ phase = "session"
    /\ page = "Prompt"
    /\ t # prompt_area
    /\ Script("EditPrompt", page, uploaded_file, api_key, t, FALSE, FALSE,
              NoOutcome)

\* The user presses Save.
Save ==
    /\ phase = "session"
    /\ page = "Prompt"
    /\ Script("Save", page, uploaded_file, api_key, prompt_area, TRUE, FALSE,
              NoOutcome)

\* The user presses Extract Lessons (the button of line 190 is there only
\* when the last run found a document in the session).
ExtractLessons(resp) ==
    /\ phase = "session"
    /\ page = "Home"
    /\ Truthy(uploaded_file_content)
    /\ Script("ExtractLessons", page, uploaded_file, api_key, prompt_area,
              FALSE, TRUE, resp)

\* The state after the first run of the script in a new session.
Init ==
    /\ phase = "session"
    /\ action = "open"
    /\ page = "Home"
    /\ uploaded_file = None
    /\ api_key = <<>>
    /\ uploaded_file_content = None
    /\ file_type = None
    /\ custom_prompt = default_prompt
    /\ prompt_area = default_prompt
    /\ cache = {}
    /\ temp_files = {}
    /\ full_text = None
    /\ file_text = None
    /\ template = None
    /\ prompt = None
    /\ result = None
    /\ key_ideas = None
    /\ called = FALSE
    /\ cause = "not_run"
    /\ exc = "none"
    /\ shown = <<"write: Please upload a PDF, TXT, or EPUB file">>
    /\ seen = {}

Next ==
    \/ \E pg \in {"Home", "Prompt"} : SwitchPage(pg)
    \/ \E f \in Uploads : Upload(f)
    \/ RemoveUpload
    \/ \E k \in ApiKeys : EnterApiKey(k)
    \/ \E t \in PromptTexts : EditPrompt(t)
    \/ Save
    \/ \E resp \in RemoteOutcomes : ExtractLessons(resp)

Spec == Init /\ [][Next]_vars

----------------------------------------------------------------------------
(* get_key_ideas on its own: the arguments are drawn by Init *)

TemplateChunks ==
    { Placeholder,
      <<"{", "f", "i", "l", "e", "_">>,
      <<"t", "e", "x", "t", "}">>,
      <<"a">> }

\* Templates and document texts built from at most Max...Chunks chunks.
Templates == {Concat(cs) : cs \in SeqsUpTo(TemplateChunks, MaxTemplateChunks)}
FileTexts == {Concat(cs) : cs \in SeqsUpTo(TemplateChunks, MaxTextChunks)}

ResponseChunks ==
    { OpenTag, UpperTag, CloseTag, Hello, <<"\n">>, <<" ">>, <<">">> }

ResponseTexts ==
    {Concat(cs) : cs \in SeqsUpTo(ResponseChunks, MaxResponseChunks)}

\* One call get_key_ideas(file_text, api_key, template) and its return.
GetKeyIdeasCall(resp) ==
    /\ phase = "call"
    /\ cause = "not_run"
    /\ \E g \in {GetKeyIdeas(file_text, api_key, Val(template), resp)} :
        /\ prompt' = g.prompt
        /\ result' = g.result
        /\ key_ideas' = g.key_ideas
        /\ called' = g.called
        /\ cause' = g.cause
        /\ exc' = g.exc
    /\ UNCHANGED <<page, uploaded_file, api_key, uploaded_file_content,
                   file_type, custom_prompt, prompt_area, cache, temp_files,
                   full_text, file_text, template, shown, seen, action, phase>>

InitCall ==
    /\ phase = "call"
    /\ action = "call"
    /\ page = "Home"
    /\ uploaded_file = None
    /\ api_key = <<>>
    /\ uploaded_file_content = None
    /\ file_type = None
    /\ custom_prompt = default_prompt
    /\ prompt_area = default_prompt
    /\ cache = {}
    /\ temp_files = {}
    /\ full_text = None
    /\ prompt = None
    /\ result = None
    /\ key_ideas = None
    /\ called = FALSE
    /\ cause = "not_run"
    /\ exc = "none"
    /\ shown = <<>>
    /\ seen = {}

\* Prompt assembly: every template and text of the bounded sets, and the
\* absent text of a failed extraction.
InitAssemble ==
    /\ InitCall
    /\ template \in {Some(t) : t \in Templates}
    /\ file_text \in {None} \cup {Some(x) : x \in FileTexts}

NextAssemble ==
    \E resp \in {[kind |-> "raise", text |-> <<>>]} : GetKeyIdeasCall(resp)

SpecAssemble == InitAssemble /\ [][NextAssemble]_vars

\* Response parsing: every response text of the bounded set.
InitParse ==
    /\ InitCall
    /\ template = Some(default_prompt)
    /\ file_text = Some(<<"H", "i">>)

NextParse ==
    /\ cause = "not_run"
    /\ \E r \in ResponseTexts : GetKeyIdeasCall([kind |-> "text", text |-> r])

SpecParse == InitParse /\ [][NextParse]_vars

----------------------------------------------------------------------------
(* Properties *)

Range(s) == {s[k] : k \in 1..Len(s)}

\* The indices of s where the placeholder token stands.
TokensIn(s) == {i \in 1..Len(s) : OccursAt(s, Placeholder, i)}

\* An opening marker, in any letter case, stands at index i of r.
OpenTagAnyCase(r, i) ==
    /\ i + Len(OpenTag) - 1 <= Len(r)
    /\ \A k \in 1..Len(OpenTag) : r[i + k - 1] \in {OpenTag[k], UpperTag[k]}

HasOpenTag(r) == \E i \in 1..Len(r) : OpenTagAnyCase(r, i)

FirstOpenTag(r) ==
    CHOOSE i \in 1..Len(r) :
        OpenTagAnyCase(r, i) /\ \A j \in 1..(i - 1) : ~OpenTagAnyCase(r, j)

\* The text after the first opening marker of r.
AfterOpenTag(r) == SubSeq(r, FirstOpenTag(r) + Len(OpenTag), Len(r))

\* The lines of a text: the pieces between its newlines.
RECURSIVE Lines(_)
Lines(s) ==
    IF \E k \in 1..Len(s) : s[k] = "\n"
    THEN LET n == CHOOSE k \in 1..Len(s) :
                    s[k] = "\n" /\ \A j \in 1..(k - 1) : s[j] # "\n"
         IN <<SubSeq(s, 1, n - 1)>> \o Lines(SubSeq(s, n + 1, Len(s)))
    ELSE <<s>>

\* A line without its leading block-quote marker, if it has one.
Unquoted(line) ==
    IF QuoteMatchEnd(line, 1) # 0
    THEN SubSeq(line, QuoteMatchEnd(line, 1), Len(line))
    ELSE line

\* get_key_ideas has returned a value parsed from a response text.
Parsed == phase = "call" /\ cause \in {"parsed", "no_marker"}

\* get_key_ideas has assembled a prompt.
Assembled == phase = "call" /\ cause # "not_run" /\ ~IsNone(prompt)

\* How a run started by Extract Lessons ended.
RunEnd ==
    IF exc # "none" THEN "Uncaught(" \o exc \o ")"
    ELSE IF cause = "parsed" THEN "Succeeded"
    ELSE IF cause = "no_marker" THEN "Failed(ParseError)"
    ELSE IF cause \in {"call_raised", "no_candidates"}
         THEN "Failed(ModelCallError)"
    ELSE "Failed(ExtractionError)"

\* C1 as claimed: in a run started by Extract Lessons on a document whose
\* text extraction failed, model.generate_content is not invoked and the
\* run ends as an extraction failure.
C1_ExtractionFailureShortCircuits ==
    (action = "ExtractLessons" /\ IsNone(full_text))
        => (~called /\ RunEnd = "Failed(ExtractionError)")

\* C2 as claimed: a response made of an opening marker, a payload P, a
\* closing marker and trailing text parses to P alone, trimmed and with its
\* block-quote prefixes removed.
C2_ParseReturnsPayloadOnly ==
    (Parsed /\ OpenTagAnyCase(Val(result), 1)
            /\ Find(Val(result), CloseTag, Len(OpenTag) + 1) # 0)
        => LET r == Val(result)
               c == Find(r, CloseTag, Len(OpenTag) + 1)
               P == SubSeq(r, Len(OpenTag) + 1, c - 1)
           IN key_ideas = Some(SubQuote(Strip(P)))

\* C3 as claimed: for a template with exactly one placeholder token and any
\* text, the assembled prompt holds no placeholder token and holds the text
\* at the placeholder's former position.
C3_NoPlaceholderRemains ==
    (Assembled /\ Cardinality(TokensIn(Val(template))) = 1)
        => LET t == Val(template)
               i == CHOOSE i \in TokensIn(t) : TRUE
           IN /\ TokensIn(Val(prompt)) = {}
              /\ Val(prompt) = SubSeq(t, 1, i - 1) \o Val(file_text)
                                \o SubSeq(t, i + Len(Placeholder), Len(t))

\* C3 as amended: for a template with exactly one placeholder token and any
\* text, the assembled prompt is the template's prefix, the text verbatim,
\* and the template's suffix; every placeholder token left in it touches the
\* inserted text, the tokens of the text itself are left in, and none is
\* left when neither the text nor the prefix contains "{".
C3_TextVerbatimAtPlaceholder ==
    (Assembled /\ Cardinality(TokensIn(Val(template))) = 1)
        => LET t == Val(template)
               x == Val(file_text)
               i == CHOOSE i \in TokensIn(t) : TRUE
               pre == SubSeq(t, 1, i - 1)
               suf == SubSeq(t, i + Len(Placeholder), Len(t))
               left == TokensIn(Val(prompt))
           IN /\ Val(prompt) = pre \o x \o suf
              /\ \A j \in left :
                    /\ j + Len(Placeholder) - 1 >= i
                    /\ j <= i + Len(x) - 1
              /\ \A j \in TokensIn(x) : (i + j - 1) \in left
              /\ ("{" \notin Range(pre) /\ "{" \notin Range(x)) => left = {}

\* A one-placeholder template, a text without braces, and a prompt free of
\* placeholder tokens.
C3_Witness ==
    /\ Assembled
    /\ Cardinality(TokensIn(Val(template))) = 1
    /\ Len(Val(template)) > Len(Placeholder)
    /\ Val(file_text) = <<"a">>
    /\ TokensIn(Val(prompt)) = {}

\* The text that replacing every placeholder token of t by x gives, position
\* by position: x where a token starts, nothing for its other characters,
\* the character itself elsewhere.
EveryTokenReplaced(t, x) ==
    Concat([k \in 1..Len(t) |->
                IF OccursAt(t, Placeholder, k) THEN x
                ELSE IF \E j \in TokensIn(t) :
                            j < k /\ k <= j + Len(Placeholder) - 1
                     THEN <<>>
                ELSE <<t[k]>>])

\* C4 as claimed: only the first placeholder token of the template is
\* replaced; every later one is left as it is.
C4_OnlyFirstReplaced ==
    Assembled
        => Val(prompt) = ReplaceFirstOnly(Val(template), Placeholder,
                                          Val(file_text))

\* C4 as amended: every placeholder token of the template is replaced by
\* the text, and the inserted text is not substituted again.
C4_EveryOccurrenceReplaced ==
    Assembled => Val(prompt) = EveryTokenReplaced(Val(template), Val(file_text))

\* A template with two placeholder tokens and a text that holds one.
C4_Witness ==
    /\ Assembled
    /\ Cardinality(TokensIn(Val(template))) >= 2
    /\ TokensIn(Val(file_text)) # {}
    /\ Cardinality(TokensIn(Val(prompt))) >= 2

\* C5 as claimed: no temporary file of an EPUB extraction is left behind,
\* whether the extraction succeeded or failed.
C5_TempFileRemoved == temp_files = {}

\* C6 as claimed: the outcome of a run whose response holds no marker
\* differs from the outcome of a run whose remote call raised, in the value
\* returned and in what is shown.
C6_ParseFailureDistinct ==
    \A a, b \in seen :
        (a.cause = "no_marker" /\ b.cause = "call_raised")
            => (a.returned # b.returned /\ a.shown # b.shown)

\* C7 as claimed: every run started by Extract Lessons ends Succeeded or
\* Failed with one of the three kinds; no exception escapes.
C7_EveryRunEndsCaught ==
    action = "ExtractLessons"
        => RunEnd \in {"Succeeded", "Failed(ExtractionError)",
                       "Failed(ModelCallError)", "Failed(ParseError)"}

\* C8 as claimed: parsing returns None exactly when the response holds no
\* opening marker in any letter case, and otherwise the trimmed text after
\* the first opening marker.
C8_TrimmedTextAfterMarker ==
    Parsed
        => /\ IsNone(key_ideas) <=> ~HasOpenTag(Val(result))
           /\ HasOpenTag(Val(result))
                => key_ideas = Some(Strip(AfterOpenTag(Val(result))))

\* C8 as amended: parsing returns None exactly when the response holds no
\* opening marker in any letter case, and otherwise the text after the first
\* opening marker, trimmed and then cleaned of block-quote prefixes.
C8_NoneIffNoMarker ==
    Parsed
        => /\ IsNone(key_ideas) <=> ~HasOpenTag(Val(result))
           /\ HasOpenTag(Val(result))
                => key_ideas = Some(SubQuote(Strip(AfterOpenTag(Val(result)))))

\* An upper-case marker after some text and another marker, with a quoted
\* payload that the cleanup changes.
C8_Witness ==
    /\ Parsed
    /\ HasOpenTag(Val(result))
    /\ FirstOpenTag(Val(result)) > 1
    /\ OccursAt(Val(result), UpperTag, FirstOpenTag(Val(result)))
    /\ HasOpenTag(AfterOpenTag(Val(result)))
    /\ key_ideas # Some(Strip(AfterOpenTag(Val(result))))

\* C9 as claimed: the cleaned text has as many lines as the trimmed payload
\* and each of its lines is the payload's line, with at most one leading
\* block-quote marker removed.
C9_CleanupLineByLine ==
    (Parsed /\ ~IsNone(key_ideas))
        => LET payload == Lines(Strip(AfterOpenTag(Val(result))))
               cleaned == Lines(Val(key_ideas))
           IN /\ Len(cleaned) = Len(payload)
              /\ \A k \in 1..Len(payload) :
                    cleaned[k] \in {payload[k], Unquoted(payload[k])}

\* C10: the stored template changes only in a run started by Save, to the
\* text of the prompt area, and is the template a run passes to
\* get_key_ideas; the stored content and media type change only in a run
\* started by an upload, to the content and type of the uploaded file; the
\* API key changes only when the user types one.
C10_SessionFrame ==
    [][ /\ custom_prompt' # custom_prompt
            => (action' = "Save" /\ custom_prompt' = prompt_area)
        /\ action' = "ExtractLessons"
            => (template' = Some(custom_prompt) /\ custom_prompt' = custom_prompt)
        /\ ~IsNone(prompt')
            => prompt' = Some(Replace(custom_prompt', Placeholder, Val(full_text')))
        /\ (uploaded_file_content' # uploaded_file_content \/ file_type' # file_type)
            => action' = "Upload"
        /\ action' = "Upload"
            => /\ ~IsNone(uploaded_file')
               /\ uploaded_file_content' = Some(Val(uploaded_file').content)
               /\ file_type' = Some(Val(uploaded_file').type)
        /\ api_key' # api_key => action' = "EnterApiKey"
      ]_vars

\* A run on a saved, typed prompt and a document uploaded before the page
\* was switched.
C10_Witness ==
    /\ action = "ExtractLessons"
    /\ custom_prompt = TypedPrompt
    /\ template = Some(TypedPrompt)
    /\ IsNone(uploaded_file)
    /\ Truthy(uploaded_file_content)
    /\ cause = "parsed"

====
